---- MODULE Spec2Model ----
(***************************************************************************)
(* Cycle-accurate model of the Stroke rasterizer                           *)
(* (gateware/src/tiliqua/raster_stroke.py): the address mapper, the bus    *)
(* transaction FSM and the synchronous reset by fb.enable, together with a *)
(* wishbone memory holding the packed framebuffer; and of two blocks of    *)
(* SynthPeripheral (gateware/src/top/polysyn/top.py), the matrix           *)
(* coefficient handshake and the MIDI arbiter, with the start register of  *)
(* the polysyn top level.                                                  *)
(*                                                                         *)
(* One step of the model is one clock tick of the sync domain.  Registers  *)
(* are variables; combinational signals are operators over the registers   *)
(* and the inputs of the current cycle.                                    *)
(***************************************************************************)
EXTENDS Integers, Naturals, Sequences, FiniteSets, TLC

VARIABLES
    fsm,               \* FSM state register
    sample_x,          \* signed(16)
    sample_y,          \* signed(16)
    sample_p,          \* signed(16), latched but never consumed
    sample_c,          \* signed(16)
    sample_intensity,  \* unsigned(4)
    px_read,           \* unsigned(32)
    px_sum,            \* unsigned(16)
    bus_adr,           \* wishbone address register
    bus_sel,           \* wishbone byte-select register
    fb_enable,         \* value of fb.enable during the current cycle
    enable,            \* value of the enable input during the current cycle
    permit_bus_traffic, \* value of the SoC's permit_bus_traffic during the cycle
    mem,               \* framebuffer memory behind the wishbone bus
    env,               \* input sets the environment draws from (never changes)
    matrix_busy,       \* SynthPeripheral: a coefficient is waiting for the diffuser
    c_valid,           \* SynthPeripheral: synth.diffuser.matrix.c.valid
    c_payload,         \* SynthPeripheral: synth.diffuser.matrix.c.payload
    matrix_in,         \* SynthPeripheral: Matrix write strobe, its data and
                       \* c.ready during the current cycle
    coeffs,            \* history: coefficients committed, coefficients accepted
    soc_midi_fifo,     \* SynthPeripheral: messages written by the SoC, oldest first
    read_midi_fifo,    \* SynthPeripheral: messages recorded for the SoC, oldest first
    midi_in,           \* SynthPeripheral: i_midi.valid and payload, the synth's
                       \* ready, the MidiWrite strobe and data and the MidiRead
                       \* strobe during the current cycle
    midi_log,          \* history: messages handed over on i_midi, written by the
                       \* SoC, received by the synth, recorded for the SoC
    up,                \* state of the upsampling stage in front of the engine
    npoints,           \* history: points accepted so far
    stall,             \* history: ticks the strobed transaction went unacknowledged
    trace              \* history: events since the last restart

\* the registers and inputs of SynthPeripheral, and their history
synth_periph == <<matrix_busy, c_valid, c_payload, matrix_in, coeffs,
                  soc_midi_fifo, read_midi_fifo, midi_in, midi_log>>

vars == <<fsm, sample_x, sample_y, sample_p, sample_c, sample_intensity,
          px_read, px_sum, bus_adr, bus_sel, fb_enable, enable,
          permit_bus_traffic, mem, env, synth_periph, up, npoints, stall, trace>>

regs == <<fsm, sample_x, sample_y, sample_p, sample_c, sample_intensity,
          px_read, px_sum, bus_adr, bus_sel>>

-----------------------------------------------------------------------------
(* Bounds of the model *)

\* fb.timings.h_active: active width in pixels
HActive == 8
\* fb.timings.v_active: active height in lines
VActive == 4
\* fb.fb_base: word address of the first framebuffer word
FbBase == 16
\* points accepted in one behaviour of Spec under PointsEnv
MaxPoints == 2
\* points accepted in one behaviour of Spec under ConfigEnv
MaxCfgPoints == 1
\* points accepted in one behaviour of SpecAccum
MaxDraws == 17
\* unacknowledged ticks of one transaction that are counted under ConfigEnv
MaxStall == 2

-----------------------------------------------------------------------------
(* Fixed-width arithmetic *)

Pow2(n) == 2 ^ n

\* value kept by an unsigned register of width w
Trunc(v, w) == v % Pow2(w)

\* value kept by a signed register of width w
ToSigned(v, w) ==
    LET u == v % Pow2(w)
    IN  IF u >= Pow2(w - 1) THEN u - Pow2(w) ELSE u

\* arithmetic shift right of a signed value
Asr(v, k) == v \div Pow2(k)

(* A 32-bit word is kept as its four bytes, least significant first; the *)
(* bitwise operators work on bit vectors [0 .. n-1 -> {0, 1}], bit 0 first. *)

\* the n low bits of a non-negative number below 2^16
Bits(v, n) == [i \in 0 .. (n - 1) |-> IF i < 16 THEN (v \div Pow2(i)) % 2 ELSE 0]

WordBits(w) == [i \in 0 .. 31 |-> (w[(i \div 8) + 1] \div Pow2(i % 8)) % 2]

\* bits lo .. lo+7 of a bit vector, as a number
BitsByte(bv, lo) ==
    bv[lo] + 2 * bv[lo + 1] + 4 * bv[lo + 2] + 8 * bv[lo + 3]
    + 16 * bv[lo + 4] + 32 * bv[lo + 5] + 64 * bv[lo + 6] + 128 * bv[lo + 7]

BitsWord(bv) == <<BitsByte(bv, 0), BitsByte(bv, 8), BitsByte(bv, 16), BitsByte(bv, 24)>>

\* the 32 low bits of bv << k and of bv >> k
Shl(bv, k) == [i \in 0 .. 31 |-> IF i - k \in DOMAIN bv THEN bv[i - k] ELSE 0]
Shr(bv, k) == [i \in 0 .. 31 |-> IF i + k \in DOMAIN bv THEN bv[i + k] ELSE 0]

BitAnd(a, b) == [i \in 0 .. 31 |-> a[i] * b[i]]
BitOr(a, b) == [i \in 0 .. 31 |-> IF a[i] + b[i] > 0 THEN 1 ELSE 0]
BitNot(a) == [i \in 0 .. 31 |-> 1 - a[i]]

ZeroWord == <<0, 0, 0, 0>>

Min(a, b) == IF a <= b THEN a ELSE b

-----------------------------------------------------------------------------
(* Framebuffer geometry *)

bytes_per_pixel == 1

fb_hwords == (HActive * bytes_per_pixel) \div 4

\* word addresses of the framebuffer
FbAddrs == FbBase .. (FbBase + fb_hwords * VActive - 1)

-----------------------------------------------------------------------------
(* Coordinate/address mapper: combinational, from the latched sample and   *)
(* the rotate_left input of the current cycle                              *)

subpix_shift(rot) ==
    IF rot THEN ((-sample_y) % 4) * 8
           ELSE (sample_x % 4) * 8

\* mutant: the horizontal index kept signed, so a negative one does not wrap
x_offs_signed(rot) ==
    IF rot THEN (fb_hwords \div 2) + Asr(-sample_y, 2)
           ELSE (fb_hwords \div 2) + Asr(sample_x, 2)

\* mutant: the rotated horizontal index is taken from x, not from -y
x_offs_noswap(rot) == Trunc((fb_hwords \div 2) + Asr(sample_x, 2), 16)

x_offs(rot) ==
    IF rot THEN Trunc((fb_hwords \div 2) + Asr(-sample_y, 2), 16)
           ELSE Trunc((fb_hwords \div 2) + Asr(sample_x, 2), 16)

y_offs(rot) ==
    IF rot THEN Trunc(sample_x + Asr(VActive, 1), 16)
           ELSE Trunc(sample_y + Asr(VActive, 1), 16)

\* both indices are below 2^16, so the sum fits the unsigned(32) signal
pixel_offs(rot) == y_offs(rot) * fb_hwords + x_offs(rot)

\* mutant: the bounds check looks at the horizontal index only
InBounds_xonly(rot) == x_offs(rot) < fb_hwords

\* mutant: the bounds check is off by one, <= for <
InBounds_inclusive(rot) == (x_offs(rot) <= fb_hwords) /\ (y_offs(rot) <= VActive)

\* the LATCH1 bounds check
InBounds(rot) == (x_offs(rot) < fb_hwords) /\ (y_offs(rot) < VActive)

-----------------------------------------------------------------------------
(* Combinational outputs of the FSM *)

ready == fsm = "LATCH0"
bus_stb == fsm \in {"READ", "WRITE"}
bus_cyc == fsm \in {"READ", "WRITE"}
bus_we == fsm = "WRITE"

new_color(hue) == Trunc(Asr(sample_c, 10) + hue, 4)

\* px_sum[4:8] + sample_intensity
IntensitySum == ((px_sum \div 16) % 16) + sample_intensity

\* mutant: the sum wraps instead of saturating
NewByte_wraps(hue) == new_color(hue) + 16 * (IntensitySum % 16)

\* mutant: the nibbles concatenated the other way round, colour on top
NewByte_swapped(hue) ==
    IF IntensitySum >= 15
    THEN 16 * new_color(hue) + 15
    ELSE 16 * new_color(hue) + IntensitySum

\* Cat(new_color, white) resp. Cat(new_color, px_sum[4:8] + sample_intensity)
NewByte(hue) ==
    IF IntensitySum >= 15
    THEN new_color(hue) + 16 * 15
    ELSE new_color(hue) + 16 * IntensitySum

\* mutant: the write payload is the new byte alone, the read word forgotten
bus_dat_w_fresh(hue, rot) ==
    BitsWord(Shl(Bits(NewByte(hue), 9), subpix_shift(rot)))

\* mutant: the mask is not shifted to the sub-field
bus_dat_w_mask0(hue, rot) ==
    LET sh     == subpix_shift(rot)
        masked == BitAnd(WordBits(px_read), BitNot(Bits(255, 32)))
    IN  BitsWord(BitOr(masked, Shl(Bits(NewByte(hue), 9), sh)))

\* bus.dat_w in WRITE, as a word.  The operands are wider than 32 bits in
\* the source; bits 32 and up never reach the 32 bits that are assigned.
bus_dat_w(hue, rot) ==
    LET sh     == subpix_shift(rot)
        masked == BitAnd(WordBits(px_read), BitNot(Shl(Bits(255, 32), sh)))
    IN  BitsWord(BitOr(masked, Shl(Bits(NewByte(hue), 9), sh)))

\* ((bus.dat_r >> subpix_shift) & 0xff), as assigned to px_sum
px_sum_of(dat_r, rot) ==
    Trunc(BitsByte(BitAnd(Shr(WordBits(dat_r), subpix_shift(rot)), Bits(255, 32)), 0), 16)

-----------------------------------------------------------------------------
(* Wishbone memory *)

\* word stored by a write of dat under byte select sel
Merge(old, dat, sel) ==
    [k \in 1 .. 4 |-> IF (sel \div Pow2(k - 1)) % 2 = 1 THEN dat[k] ELSE old[k]]

MemRead(adr) == IF adr \in DOMAIN mem THEN mem[adr] ELSE ZeroWord

MemWrite(adr, dat, sel) ==
    IF adr \in DOMAIN mem
    THEN [mem EXCEPT ![adr] = Merge(mem[adr], dat, sel)]
    ELSE mem

-----------------------------------------------------------------------------
(* The history kept in trace, one event per completed step since the last  *)
(* restart:                                                                *)
(*   <<"accept", c, s, ex, ey, p>>  a point with colour lane c and         *)
(*                              intensity lane p was latched,              *)
(*                              the intensity step being s in that cycle;  *)
(*                              ex, ey are (raw >> scale) + offset before  *)
(*                              they are assigned to sample_x, sample_y    *)
(*   <<"in", x, y, rot>>        LATCH1 found the latched (x, y) in bounds  *)
(*   <<"out", x, y, rot>>       LATCH1 discarded the latched (x, y)        *)
(*   <<"read", adr, dat, sh, n>>  a read was acknowledged, after n counted *)
(*                              ticks without an acknowledge               *)
(*   <<"wait">>                 one tick of the latency drain              *)
(*   <<"write", adr, dat, sh, hue>>  a write was acknowledged, the hue     *)
(*                              being hue in that cycle                    *)

Kind(i) == trace[i][1]

Count(k) == Cardinality({i \in 1 .. Len(trace) : Kind(i) = k})

Busy == {"LATCH1", "READ", "WAIT", "WAIT2", "WAIT3", "WRITE"}

\* byte k (0 .. 3) of a word
ByteOf(w, k) == w[k + 1]

\* the mapping of section 4.2 of the specification, on unbounded integers
HorizIndex(x, y, rot) == (fb_hwords \div 2) + (IF rot THEN (-y) \div 4 ELSE x \div 4)
VertIndex(x, y, rot) == (IF rot THEN x ELSE y) + (VActive \div 2)
SubField(x, y, rot) == IF rot THEN (-y) % 4 ELSE x % 4
WithinFb(x, y, rot) ==
    /\ HorizIndex(x, y, rot) \in 0 .. (fb_hwords - 1)
    /\ VertIndex(x, y, rot) \in 0 .. (VActive - 1)
WordAddr(x, y, rot) == FbBase + VertIndex(x, y, rot) * fb_hwords + HorizIndex(x, y, rot)

-----------------------------------------------------------------------------
(* Environment: the sets the inputs of a cycle are drawn from *)

\* a word holding four different pixels, two of them with intensity 0
PatternWord == <<3, 231, 5, 241>>

InitMems == {[a \in FbAddrs |-> ZeroWord], [a \in FbAddrs |-> PatternWord]}

\* many points, the configuration registers at one value, enable held high
PointsEnv ==
    [xs     |-> {-5, 2},
     ys     |-> {-4},
     ps     |-> {7},
     cs     |-> {-1024},
     scales |-> {0, 2},
     offs   |-> {0},
     steps  |-> {8},
     hues   |-> {5},
     rots   |-> BOOLEAN,
     ens    |-> {TRUE},
     fbens  |-> BOOLEAN,
     acks   |-> BOOLEAN,
     maxpts |-> MaxPoints,
     maxstall |-> 0,
     n_upsample |-> 1,
     maxins |-> 0,
     permits |-> {FALSE},
     top |-> FALSE]

\* one pixel, the configuration registers changing from cycle to cycle,
\* enable held high
ConfigEnv ==
    [xs     |-> {1},
     ys     |-> {0},
     ps     |-> {7},
     cs     |-> {0, -1024},
     scales |-> {0},
     offs   |-> {-1},
     steps  |-> {1, 8},
     hues   |-> {5, 10},
     rots   |-> BOOLEAN,
     ens    |-> {TRUE},
     fbens  |-> BOOLEAN,
     acks   |-> BOOLEAN,
     maxpts |-> MaxCfgPoints,
     maxstall |-> 0,
     n_upsample |-> 1,
     maxins |-> 0,
     permits |-> {FALSE},
     top |-> FALSE]

\* one pixel, the bus withholding its acknowledge for up to MaxStall ticks
StallEnv ==
    [xs     |-> {1},
     ys     |-> {0},
     ps     |-> {7},
     cs     |-> {0},
     scales |-> {0},
     offs   |-> {-1},
     steps  |-> {8},
     hues   |-> {5},
     rots   |-> {FALSE},
     ens    |-> {TRUE},
     fbens  |-> BOOLEAN,
     acks   |-> BOOLEAN,
     maxpts |-> MaxCfgPoints,
     maxstall |-> MaxStall,
     n_upsample |-> 1,
     maxins |-> 0,
     permits |-> {FALSE},
     top |-> FALSE]

\* one pixel, the enable input free in every cycle
EnableEnv ==
    [xs     |-> {1},
     ys     |-> {0, 9},
     ps     |-> {7},
     cs     |-> {0},
     scales |-> {0},
     offs   |-> {0},
     steps  |-> {8},
     hues   |-> {5},
     rots   |-> {FALSE},
     ens    |-> BOOLEAN,
     fbens  |-> BOOLEAN,
     acks   |-> BOOLEAN,
     maxpts |-> MaxPoints,
     maxstall |-> 0,
     n_upsample |-> 1,
     maxins |-> 0,
     permits |-> {FALSE},
     top |-> FALSE]

SpecEnvs == {PointsEnv, ConfigEnv, StallEnv, EnableEnv}

-----------------------------------------------------------------------------
(* The upsampling stage: Split hands the four lanes of an input point to   *)
(* four resamplers, one lane each; a resampler turns every value it takes  *)
(* into n_upsample values on the way from the value before; Merge puts the *)
(* four lanes together again.  With n_upsample None (written 0) or 1 the   *)
(* stage is not built and up stays as it starts.                           *)

\* largest upsampling factor of the upsampled scenarios
MaxUpsample == 3
\* input points the stage accepts in one behaviour of SpecUp
MaxUpIns == 2

NoPoint == <<>>
Lanes == 1 .. 4

\* a resampler at rest, its last value 0
LaneInit == [p0 |-> 0, p1 |-> 0, k |-> 0]

UpInit ==
    [offer |-> NoPoint,
     taken |-> [j \in Lanes |-> FALSE],
     lane  |-> [j \in Lanes |-> LaneInit],
     ins   |-> <<>>]

\* `self.n_upsample is not None and self.n_upsample != 1`
Upsampling == env.n_upsample \notin {0, 1}

\* the points the input stream may present in a cycle
InputPoints == {<<x, y, p, c>> : x \in env.xs, y \in env.ys, p \in env.ps, c \in env.cs}

\* resampler j takes a value when it has emitted all it owed for the last one
LaneReady(j) == up.lane[j].k = 0

\* mutant: the resampler repeats the value it took, n_upsample times
LaneOut_hold(j) == up.lane[j].p1

\* output k of n_upsample on the way from p0 to p1; the last one is p1
LaneOut(j) ==
    LET l == up.lane[j]
    IN  l.p0 + ((l.p1 - l.p0) * l.k) \div env.n_upsample

\* Merge: an output point when every lane has a value
MergeValid == \A j \in Lanes : up.lane[j].k > 0
MergeOut == IF MergeValid THEN {<<LaneOut(1), LaneOut(2), LaneOut(3), LaneOut(4)>>} ELSE {}

\* the stage after the engine has taken Merge's output point
MergePop ==
    [up EXCEPT !.lane = [j \in Lanes |->
        IF up.lane[j].k = env.n_upsample
        THEN [p0 |-> up.lane[j].p1, p1 |-> up.lane[j].p1, k |-> 0]
        ELSE [up.lane[j] EXCEPT !.k = @ + 1]]]

\* the stream the engine latches from: Merge's output, or the input itself
point_stream == IF Upsampling THEN MergeOut ELSE InputPoints

\* the producer presents a point and holds it until the stage has taken it
Produce ==
    /\ Upsampling
    /\ up.offer = NoPoint
    /\ Len(up.ins) < env.maxins
    /\ \E pt \in InputPoints : up' = [up EXCEPT !.offer = pt]
    /\ UNCHANGED <<regs, fb_enable, enable, permit_bus_traffic, mem, env, synth_periph,
                   npoints, stall, trace>>

\* Split hands lane j of the presented point to its resampler; the point is
\* accepted from the producer when all four lanes have been handed over
SplitLane ==
    /\ Upsampling
    /\ up.offer # NoPoint
    /\ \E j \in Lanes :
          /\ ~up.taken[j]
          /\ LaneReady(j)
          /\ LET taken2 == [up.taken EXCEPT ![j] = TRUE]
                 lane2  == [up.lane EXCEPT ![j] =
                               [p0 |-> @.p0, p1 |-> up.offer[j], k |-> 1]]
             IN  up' = IF \A i \in Lanes : taken2[i]
                       THEN [offer |-> NoPoint,
                             taken |-> [i \in Lanes |-> FALSE],
                             lane  |-> lane2,
                             ins   |-> Append(up.ins, up.offer)]
                       ELSE [up EXCEPT !.taken = taken2, !.lane = lane2]
    /\ UNCHANGED <<regs, fb_enable, enable, permit_bus_traffic, mem, env, synth_periph,
                   npoints, stall, trace>>

-----------------------------------------------------------------------------
(* The engine *)

\* mutant: the start signal is raised whether or not the bus is permitted
vector_periph_en_unguarded == TRUE

\* PolySoc.elaborate: `with m.If(self.permit_bus_traffic):
\* m.d.sync += self.vector_periph.en.eq(1)`, the value of the register after
\* this tick
vector_periph_en == IF permit_bus_traffic THEN TRUE ELSE enable

\* a coefficient o_x, i_y, v of the mixing matrix
NoCoeff == [o_x |-> 0, i_y |-> 0, v |-> 0]

\* no MIDI input and no register access in a cycle
NoMidi ==
    [valid |-> FALSE, payload |-> 0, synth_ready |-> FALSE,
     w_stb |-> FALSE, w_data |-> 0, r_stb |-> FALSE]

\* both FIFOs empty, nothing on the MIDI inputs
MidiIdle ==
    /\ soc_midi_fifo = <<>>
    /\ read_midi_fifo = <<>>
    /\ midi_in = NoMidi
    /\ midi_log = [hw |-> <<>>, soc |-> <<>>, got |-> <<>>, rec |-> <<>>]

\* SynthPeripheral after power-on, no register of it being written
PeriphIdle ==
    /\ matrix_busy = FALSE
    /\ c_valid = FALSE
    /\ c_payload = NoCoeff
    /\ matrix_in = [w_stb |-> FALSE, w_data |-> NoCoeff, ready |-> FALSE]
    /\ coeffs = [sent |-> <<>>, done |-> <<>>]
    /\ MidiIdle

RegsInit ==
    /\ fsm = "OFF"
    /\ sample_x = 0
    /\ sample_y = 0
    /\ sample_p = 0
    /\ sample_c = 0
    /\ sample_intensity = 0
    /\ px_read = ZeroWord
    /\ px_sum = 0
    /\ bus_adr = 0
    /\ bus_sel = 0

Init ==
    /\ RegsInit
    /\ env \in SpecEnvs
    /\ fb_enable \in env.fbens
    /\ mem \in InitMems
    /\ enable \in env.ens
    /\ permit_bus_traffic \in env.permits
    /\ up = UpInit
    /\ PeriphIdle
    /\ npoints = 0
    /\ stall = 0
    /\ trace = <<>>

\* the inputs of the next cycle: the framebuffer's enable, permit_bus_traffic
\* and the enable input, which is free or, in the polysyn top level, the
\* register vector_periph.en (set once permit_bus_traffic is seen high)
NextCycle ==
    /\ fb_enable' \in env.fbens
    /\ permit_bus_traffic' \in env.permits
    /\ enable' \in (IF env.top THEN {vector_periph_en} ELSE env.ens)

Log(e) == trace' = Append(trace, e)

\* OFF: wait for the enable input
TickOFF ==
    /\ fb_enable
    /\ fsm = "OFF"
    /\ fsm' = IF enable THEN "LATCH0" ELSE "OFF"
    /\ UNCHANGED <<sample_x, sample_y, sample_p, sample_c, sample_intensity,
                   px_read, px_sum, bus_adr, bus_sel, mem, env, synth_periph, up, npoints, stall, trace>>
    /\ NextCycle

\* mutant: the step latched is the reset value of the register, 8, not the
\* value configured in the cycle
LatchSample_default(x, y, p, c, scale_x, scale_y, x_offset, y_offset, intensity) ==
    /\ sample_x' = ToSigned(Asr(x, scale_x) + x_offset, 16)
    /\ sample_y' = ToSigned(Asr(y, scale_y) + y_offset, 16)
    /\ sample_p' = p
    /\ sample_c' = c
    /\ sample_intensity' = 8

\* the sync assignments of LATCH0 for payload <<x, y, p, c>>
LatchSample(x, y, p, c, scale_x, scale_y, x_offset, y_offset, intensity) ==
    /\ sample_x' = ToSigned(Asr(x, scale_x) + x_offset, 16)
    /\ sample_y' = ToSigned(Asr(y, scale_y) + y_offset, 16)
    /\ sample_p' = p
    /\ sample_c' = c
    /\ sample_intensity' = intensity

\* LATCH0: ready; latch a point when the stream is valid
TickLATCH0 ==
    /\ fb_enable
    /\ fsm = "LATCH0"
    /\ \/ /\ npoints < env.maxpts
          /\ \E pt \in point_stream,
                scale_x \in env.scales, scale_y \in env.scales,
                x_offset \in env.offs, y_offset \in env.offs,
                intensity \in env.steps :
                /\ LatchSample(pt[1], pt[2], pt[3], pt[4],
                               scale_x, scale_y, x_offset, y_offset, intensity)
                /\ Log(<<"accept", pt[4], intensity,
                         Asr(pt[1], scale_x) + x_offset,
                         Asr(pt[2], scale_y) + y_offset, pt[3]>>)
          /\ fsm' = "LATCH1"
          /\ npoints' = npoints + 1
          /\ up' = IF Upsampling THEN MergePop ELSE up
       \/ \* point_stream.valid low
          UNCHANGED <<fsm, sample_x, sample_y, sample_p, sample_c,
                      sample_intensity, npoints, trace, up>>
    /\ UNCHANGED <<px_read, px_sum, bus_adr, bus_sel, mem, env, synth_periph, stall>>
    /\ NextCycle

\* mutant: LATCH1 latches the address but not the byte select
TickLATCH1_nosel ==
    /\ fb_enable
    /\ fsm = "LATCH1"
    /\ \E rotate_left \in env.rots :
          IF InBounds(rotate_left)
          THEN /\ bus_adr' = FbBase + pixel_offs(rotate_left)
               /\ fsm' = "READ"
               /\ Log(<<"in", sample_x, sample_y, rotate_left>>)
          ELSE /\ fsm' = "LATCH0"
               /\ Log(<<"out", sample_x, sample_y, rotate_left>>)
               /\ UNCHANGED bus_adr
    /\ UNCHANGED <<sample_x, sample_y, sample_p, sample_c, sample_intensity,
                   px_read, px_sum, bus_sel, mem, env, synth_periph, up, npoints, stall>>
    /\ NextCycle

\* LATCH1: bounds check, latch the address
TickLATCH1 ==
    /\ fb_enable
    /\ fsm = "LATCH1"
    /\ \E rotate_left \in env.rots :
          IF InBounds(rotate_left)
          THEN /\ bus_sel' = 15
               /\ bus_adr' = FbBase + pixel_offs(rotate_left)
               /\ fsm' = "READ"
               /\ Log(<<"in", sample_x, sample_y, rotate_left>>)
          ELSE /\ fsm' = "LATCH0"
               /\ Log(<<"out", sample_x, sample_y, rotate_left>>)
               /\ UNCHANGED <<bus_sel, bus_adr>>
    /\ UNCHANGED <<sample_x, sample_y, sample_p, sample_c, sample_intensity,
                   px_read, px_sum, mem, env, synth_periph, up, npoints, stall>>
    /\ NextCycle

\* mutant: READ moves on as soon as it strobes, acknowledged or not
TickREAD_noack ==
    /\ fb_enable
    /\ fsm = "READ"
    /\ \E ack \in env.acks, rotate_left \in env.rots :
          IF ack
          THEN LET dat_r == MemRead(bus_adr)
               IN  /\ px_read' = dat_r
                   /\ px_sum' = px_sum_of(dat_r, rotate_left)
                   /\ fsm' = "WAIT"
                   /\ Log(<<"read", bus_adr, dat_r, subpix_shift(rotate_left), stall>>)
                   /\ stall' = 0
          ELSE /\ fsm' = "WAIT"
               /\ stall' = 0
               /\ UNCHANGED <<px_read, px_sum, trace>>
    /\ UNCHANGED <<sample_x, sample_y, sample_p, sample_c, sample_intensity,
                   bus_adr, bus_sel, mem, env, synth_periph, up, npoints>>
    /\ NextCycle

\* mutant: a read unacknowledged for a tick times out and the point is dropped
TickREAD_timeout ==
    /\ fb_enable
    /\ fsm = "READ"
    /\ \E ack \in env.acks, rotate_left \in env.rots :
          IF bus_stb /\ ack
          THEN LET dat_r == MemRead(bus_adr)
               IN  /\ px_read' = dat_r
                   /\ px_sum' = px_sum_of(dat_r, rotate_left)
                   /\ fsm' = "WAIT"
                   /\ Log(<<"read", bus_adr, dat_r, subpix_shift(rotate_left), stall>>)
                   /\ stall' = 0
          ELSE /\ UNCHANGED <<px_read, px_sum, trace>>
               /\ fsm' = IF stall >= 1 THEN "LATCH0" ELSE "READ"
               /\ stall' = IF stall >= 1 THEN 0 ELSE Min(stall + 1, env.maxstall)
    /\ UNCHANGED <<sample_x, sample_y, sample_p, sample_c, sample_intensity,
                   bus_adr, bus_sel, mem, env, synth_periph, up, npoints>>
    /\ NextCycle

\* READ: strobe a read until it is acknowledged
TickREAD ==
    /\ fb_enable
    /\ fsm = "READ"
    /\ \E ack \in env.acks, rotate_left \in env.rots :
          IF bus_stb /\ ack
          THEN LET dat_r == MemRead(bus_adr)
               IN  /\ px_read' = dat_r
                   /\ px_sum' = px_sum_of(dat_r, rotate_left)
                   /\ fsm' = "WAIT"
                   /\ Log(<<"read", bus_adr, dat_r, subpix_shift(rotate_left), stall>>)
                   /\ stall' = 0
          ELSE /\ UNCHANGED <<px_read, px_sum, fsm, trace>>
               /\ stall' = Min(stall + 1, env.maxstall)
    /\ UNCHANGED <<sample_x, sample_y, sample_p, sample_c, sample_intensity,
                   bus_adr, bus_sel, mem, env, synth_periph, up, npoints>>
    /\ NextCycle

\* mutant: enable gates the engine, the drain pauses while it is low
TickWAIT_gated ==
    /\ fb_enable
    /\ fsm = "WAIT"
    /\ IF enable
       THEN fsm' = "WAIT2" /\ Log(<<"wait">>)
       ELSE UNCHANGED <<fsm, trace>>
    /\ UNCHANGED <<sample_x, sample_y, sample_p, sample_c, sample_intensity,
                   px_read, px_sum, bus_adr, bus_sel, mem, env, synth_periph, up, npoints, stall>>
    /\ NextCycle

\* WAIT: one tick of the latency drain
TickWAIT ==
    /\ fb_enable
    /\ fsm = "WAIT"
    /\ fsm' = "WAIT2"
    /\ Log(<<"wait">>)
    /\ UNCHANGED <<sample_x, sample_y, sample_p, sample_c, sample_intensity,
                   px_read, px_sum, bus_adr, bus_sel, mem, env, synth_periph, up, npoints, stall>>
    /\ NextCycle

\* mutant: the drain is cut short, WAIT2 goes straight to WRITE
TickWAIT2_short ==
    /\ fb_enable
    /\ fsm = "WAIT2"
    /\ fsm' = "WRITE"
    /\ Log(<<"wait">>)
    /\ UNCHANGED <<sample_x, sample_y, sample_p, sample_c, sample_intensity,
                   px_read, px_sum, bus_adr, bus_sel, mem, env, synth_periph, up, npoints, stall>>
    /\ NextCycle

\* WAIT2: one tick of the latency drain
TickWAIT2 ==
    /\ fb_enable
    /\ fsm = "WAIT2"
    /\ fsm' = "WAIT3"
    /\ Log(<<"wait">>)
    /\ UNCHANGED <<sample_x, sample_y, sample_p, sample_c, sample_intensity,
                   px_read, px_sum, bus_adr, bus_sel, mem, env, synth_periph, up, npoints, stall>>
    /\ NextCycle

\* mutant: the drain never ends, WAIT3 has no way out
TickWAIT3_stuck ==
    /\ fb_enable
    /\ fsm = "WAIT3"
    /\ UNCHANGED <<fsm, sample_x, sample_y, sample_p, sample_c, sample_intensity,
                   px_read, px_sum, bus_adr, bus_sel, mem, env, synth_periph, up, npoints, stall,
                   trace>>
    /\ NextCycle

\* WAIT3: one tick of the latency drain
TickWAIT3 ==
    /\ fb_enable
    /\ fsm = "WAIT3"
    /\ fsm' = "WRITE"
    /\ Log(<<"wait">>)
    /\ UNCHANGED <<sample_x, sample_y, sample_p, sample_c, sample_intensity,
                   px_read, px_sum, bus_adr, bus_sel, mem, env, synth_periph, up, npoints, stall>>
    /\ NextCycle

\* mutant: the write acknowledge latches the next point at once
TickWRITE_latches ==
    /\ fb_enable
    /\ fsm = "WRITE"
    /\ \E ack \in env.acks, hue \in env.hues, rotate_left \in env.rots :
          IF bus_stb /\ ack
          THEN LET dat_w == bus_dat_w(hue, rotate_left)
               IN  /\ mem' = MemWrite(bus_adr, dat_w, bus_sel)
                   /\ fsm' = "LATCH0"
                   /\ Log(<<"write", bus_adr, dat_w, subpix_shift(rotate_left), hue>>)
                   /\ stall' = 0
                   /\ \E x \in env.xs, y \in env.ys, p \in env.ps, c \in env.cs,
                         scale_x \in env.scales, scale_y \in env.scales,
                         x_offset \in env.offs, y_offset \in env.offs,
                         intensity \in env.steps :
                         LatchSample(x, y, p, c, scale_x, scale_y, x_offset, y_offset, intensity)
          ELSE /\ UNCHANGED <<mem, fsm, trace, sample_x, sample_y, sample_p, sample_c,
                             sample_intensity>>
               /\ stall' = Min(stall + 1, env.maxstall)
    /\ UNCHANGED <<px_read, px_sum, bus_adr, bus_sel, env, synth_periph, up, npoints>>
    /\ NextCycle

\* mutant: the write acknowledge sends the same point through LATCH1 again
TickWRITE_recheck ==
    /\ fb_enable
    /\ fsm = "WRITE"
    /\ \E ack \in env.acks, hue \in env.hues, rotate_left \in env.rots :
          IF bus_stb /\ ack
          THEN LET dat_w == bus_dat_w(hue, rotate_left)
               IN  /\ mem' = MemWrite(bus_adr, dat_w, bus_sel)
                   /\ fsm' = "LATCH1"
                   /\ Log(<<"write", bus_adr, dat_w, subpix_shift(rotate_left), hue>>)
                   /\ stall' = 0
          ELSE /\ UNCHANGED <<mem, fsm, trace>>
               /\ stall' = Min(stall + 1, env.maxstall)
    /\ UNCHANGED <<sample_x, sample_y, sample_p, sample_c, sample_intensity,
                   px_read, px_sum, bus_adr, bus_sel, env, synth_periph, up, npoints>>
    /\ NextCycle

\* mutant: the write is posted, the engine does not wait for its acknowledge
TickWRITE_posted ==
    /\ fb_enable
    /\ fsm = "WRITE"
    /\ \E ack \in env.acks, hue \in env.hues, rotate_left \in env.rots :
          LET dat_w == bus_dat_w(hue, rotate_left)
          IN  IF bus_stb /\ ack
              THEN /\ mem' = MemWrite(bus_adr, dat_w, bus_sel)
                   /\ Log(<<"write", bus_adr, dat_w, subpix_shift(rotate_left), hue>>)
                   /\ stall' = 0
              ELSE /\ UNCHANGED <<mem, trace>>
                   /\ stall' = 0
    /\ fsm' = "LATCH0"
    /\ UNCHANGED <<sample_x, sample_y, sample_p, sample_c, sample_intensity,
                   px_read, px_sum, bus_adr, bus_sel, env, synth_periph, up, npoints>>
    /\ NextCycle

\* WRITE: strobe the merged word until it is acknowledged
TickWRITE ==
    /\ fb_enable
    /\ fsm = "WRITE"
    /\ \E ack \in env.acks, hue \in env.hues, rotate_left \in env.rots :
          IF bus_stb /\ ack
          THEN LET dat_w == bus_dat_w(hue, rotate_left)
               IN  /\ mem' = MemWrite(bus_adr, dat_w, bus_sel)
                   /\ fsm' = "LATCH0"
                   /\ Log(<<"write", bus_adr, dat_w, subpix_shift(rotate_left), hue>>)
                   /\ stall' = 0
          ELSE /\ UNCHANGED <<mem, fsm, trace>>
               /\ stall' = Min(stall + 1, env.maxstall)
    /\ UNCHANGED <<sample_x, sample_y, sample_p, sample_c, sample_intensity,
                   px_read, px_sum, bus_adr, bus_sel, env, synth_periph, up, npoints>>
    /\ NextCycle

\* mutant: the FSM state register is left out of the reset
Reset_keeps_fsm ==
    /\ ~fb_enable
    /\ fsm' = fsm
    /\ sample_x' = 0
    /\ sample_y' = 0
    /\ sample_p' = 0
    /\ sample_c' = 0
    /\ sample_intensity' = 0
    /\ px_read' = ZeroWord
    /\ px_sum' = 0
    /\ bus_adr' = 0
    /\ bus_sel' = 0
    /\ mem' = mem
    /\ trace' = <<>>
    /\ stall' = 0
    /\ UNCHANGED <<env, synth_periph, up, npoints>>
    /\ NextCycle

\* mutant: only the FSM state register is reset
Reset_fsm_only ==
    /\ ~fb_enable
    /\ fsm' = "OFF"
    /\ UNCHANGED <<sample_x, sample_y, sample_p, sample_c, sample_intensity,
                   px_read, px_sum, bus_adr, bus_sel>>
    /\ mem' = mem
    /\ trace' = <<>>
    /\ stall' = 0
    /\ UNCHANGED <<env, synth_periph, up, npoints>>
    /\ NextCycle

\* ResetInserter({'sync': ~fb.enable}): every sync register back to its
\* initial value; a write strobed in this cycle may still be acknowledged
Reset ==
    /\ ~fb_enable
    /\ fsm' = "OFF"
    /\ sample_x' = 0
    /\ sample_y' = 0
    /\ sample_p' = 0
    /\ sample_c' = 0
    /\ sample_intensity' = 0
    /\ px_read' = ZeroWord
    /\ px_sum' = 0
    /\ bus_adr' = 0
    /\ bus_sel' = 0
    /\ IF bus_stb /\ bus_we
       THEN \E ack \in env.acks, hue \in env.hues, rotate_left \in env.rots :
               mem' = IF ack
                      THEN MemWrite(bus_adr, bus_dat_w(hue, rotate_left), bus_sel)
                      ELSE mem
       ELSE mem' = mem
    /\ trace' = <<>>
    /\ stall' = 0
    /\ up' = UpInit
    /\ UNCHANGED <<env, synth_periph, npoints>>
    /\ NextCycle

Next ==
    \/ Reset
    \/ TickOFF
    \/ TickLATCH0
    \/ TickLATCH1
    \/ TickREAD
    \/ TickWAIT
    \/ TickWAIT2
    \/ TickWAIT3
    \/ TickWRITE

Spec == Init /\ [][Next]_vars

-----------------------------------------------------------------------------
(* The same point drawn again and again: one pixel, the configuration held *)
(* at one value, the framebuffer enabled throughout                        *)

AccumEnv(x, y, c, s, hue, rot) ==
    [xs     |-> {x},
     ys     |-> {y},
     ps     |-> {7},
     cs     |-> {c},
     scales |-> {0},
     offs   |-> {0},
     steps  |-> {s},
     hues   |-> {hue},
     rots   |-> {rot},
     ens    |-> BOOLEAN,
     fbens  |-> {TRUE},
     acks   |-> BOOLEAN,
     maxpts |-> MaxDraws,
     maxstall |-> 0,
     n_upsample |-> 1,
     maxins |-> 0,
     permits |-> {FALSE},
     top |-> FALSE]

\* the one value of a configuration register under an AccumEnv
The(S) == CHOOSE v \in S : TRUE

\* the pixel an AccumEnv draws, and what memory holds for it
AccumX == The(env.xs)
AccumY == The(env.ys)
AccumRot == The(env.rots)
AccumPixel ==
    ByteOf(mem[WordAddr(AccumX, AccumY, AccumRot)], SubField(AccumX, AccumY, AccumRot))
\* the engine reads the stored intensity from bits 7:4 of the pixel
PixelIntensity(b) == b \div 16
PixelColour(b) == b % 16

InitAccum ==
    /\ RegsInit
    /\ \E x \in {0, 2}, c \in {0, -1024}, s \in 0 .. 15, rot \in BOOLEAN :
          env = AccumEnv(x, 0, c, s, 5, rot)
    /\ fb_enable = TRUE
    /\ mem \in InitMems
    /\ WithinFb(AccumX, AccumY, AccumRot) => PixelIntensity(AccumPixel) = 0
    /\ enable \in env.ens
    /\ permit_bus_traffic \in env.permits
    /\ up = UpInit
    /\ PeriphIdle
    /\ npoints = 0
    /\ stall = 0
    /\ trace = <<>>

NextAccum ==
    \/ TickOFF
    \/ TickLATCH0
    \/ TickLATCH1
    \/ TickREAD
    \/ TickWAIT
    \/ TickWAIT2
    \/ TickWAIT3
    \/ TickWRITE

SpecAccum == InitAccum /\ [][NextAccum]_vars

-----------------------------------------------------------------------------
(* One point from a grid that covers the framebuffer and a margin around   *)
(* it, or from the ends of the coordinate range; rotate_left free in every *)
(* cycle, the framebuffer enabled throughout                               *)

\* the margin of the grid around the framebuffer, in pixels
GridMargin == 1

\* every pixel of the framebuffer in either orientation, and the margin
GridEnv ==
    [xs     |-> (-(HActive + GridMargin)) .. (HActive + GridMargin - 1),
     ys     |-> (-(HActive + GridMargin)) .. (HActive + GridMargin - 1),
     ps     |-> {7},
     cs     |-> {0},
     scales |-> {0},
     offs   |-> {0},
     steps  |-> {1},
     hues   |-> {5},
     rots   |-> BOOLEAN,
     ens    |-> {TRUE},
     fbens  |-> {TRUE},
     acks   |-> {TRUE},
     maxpts |-> 1,
     maxstall |-> 0,
     n_upsample |-> 1,
     maxins |-> 0,
     permits |-> {FALSE},
     top |-> FALSE]

\* the ends of the 16-bit lanes and of the 16-bit offsets
WrapEnv ==
    [xs     |-> {-32768, 3, 32767},
     ys     |-> {-32768, 0, 32767},
     ps     |-> {7},
     cs     |-> {0},
     scales |-> {0, 15},
     offs   |-> {-32768, 0, 32767},
     steps  |-> {1},
     hues   |-> {5},
     rots   |-> BOOLEAN,
     ens    |-> {TRUE},
     fbens  |-> {TRUE},
     acks   |-> {TRUE},
     maxpts |-> 1,
     maxstall |-> 0,
     n_upsample |-> 1,
     maxins |-> 0,
     permits |-> {FALSE},
     top |-> FALSE]

MapEnvs == {GridEnv, WrapEnv}

InitMap ==
    /\ RegsInit
    /\ env \in MapEnvs
    /\ fb_enable = TRUE
    /\ mem = [a \in FbAddrs |-> PatternWord]
    /\ enable \in env.ens
    /\ permit_bus_traffic \in env.permits
    /\ up = UpInit
    /\ PeriphIdle
    /\ npoints = 0
    /\ stall = 0
    /\ trace = <<>>

SpecMap == InitMap /\ [][NextAccum]_vars

-----------------------------------------------------------------------------
(* The engine behind the upsampling stage, or fed by the input directly:   *)
(* a few input points, the configuration held at one value, the memory     *)
(* acknowledging at once, the framebuffer enabled throughout               *)

\* the input points move in x and y, or in the intensity and colour lanes
UpEnv(n, xy) ==
    [xs     |-> IF xy THEN {-4, 2} ELSE {2},
     ys     |-> IF xy THEN {-2, 1} ELSE {1},
     ps     |-> IF xy THEN {6} ELSE {6, 9},
     cs     |-> IF xy THEN {0} ELSE {0, 2048},
     scales |-> {0},
     offs   |-> {0},
     steps  |-> {1},
     hues   |-> {5},
     rots   |-> {FALSE},
     ens    |-> {TRUE},
     fbens  |-> {TRUE},
     acks   |-> {TRUE},
     maxpts |-> IF n \in {0, 1} THEN MaxUpIns ELSE n * MaxUpIns,
     maxstall |-> 0,
     n_upsample |-> n,
     maxins |-> MaxUpIns,
     permits |-> {FALSE},
     top |-> FALSE]

InitUp ==
    /\ RegsInit
    /\ \E n \in 0 .. MaxUpsample, xy \in BOOLEAN : env = UpEnv(n, xy)
    /\ fb_enable = TRUE
    /\ mem = [a \in FbAddrs |-> ZeroWord]
    /\ enable \in env.ens
    /\ permit_bus_traffic \in env.permits
    /\ up = UpInit
    /\ PeriphIdle
    /\ npoints = 0
    /\ stall = 0
    /\ trace = <<>>

NextUp ==
    \/ Produce
    \/ SplitLane
    \/ TickOFF
    \/ TickLATCH0
    \/ TickLATCH1
    \/ TickREAD
    \/ TickWAIT
    \/ TickWAIT2
    \/ TickWAIT3
    \/ TickWRITE

SpecUp == InitUp /\ [][NextUp]_vars

-----------------------------------------------------------------------------
(* The enable input: free from cycle to cycle, or driven as in the polysyn *)
(* top level by the register vector_periph.en                              *)

\* the polysyn top level: vector_periph.en is 0 after power-on and is set by
\* permit_bus_traffic, which is free in every cycle
TopEnv ==
    [xs     |-> {1},
     ys     |-> {0, 9},
     ps     |-> {7},
     cs     |-> {0},
     scales |-> {0},
     offs   |-> {0},
     steps  |-> {8},
     hues   |-> {5},
     rots   |-> {FALSE},
     ens    |-> {FALSE},
     fbens  |-> BOOLEAN,
     acks   |-> BOOLEAN,
     maxpts |-> MaxPoints,
     maxstall |-> 0,
     n_upsample |-> 1,
     maxins |-> 0,
     permits |-> BOOLEAN,
     top |-> TRUE]

EnableEnvs == {EnableEnv, TopEnv}

InitEnable ==
    /\ RegsInit
    /\ env \in EnableEnvs
    /\ fb_enable \in env.fbens
    /\ mem = [a \in FbAddrs |-> ZeroWord]
    /\ enable \in env.ens
    /\ permit_bus_traffic \in env.permits
    /\ up = UpInit
    /\ PeriphIdle
    /\ npoints = 0
    /\ stall = 0
    /\ trace = <<>>

SpecEnable == InitEnable /\ [][Next]_vars

-----------------------------------------------------------------------------
(* Progress: the framebuffer enabled throughout, the enable input free,    *)
(* points inside and outside the framebuffer; the memory acknowledges      *)
(* when it likes (LiveEnv) or in the first cycle of every strobe (FastEnv) *)

LiveEnv ==
    [xs     |-> {1},
     ys     |-> {0, 9},
     ps     |-> {7},
     cs     |-> {0},
     scales |-> {0},
     offs   |-> {0},
     steps  |-> {8},
     hues   |-> {5},
     rots   |-> {FALSE},
     ens    |-> BOOLEAN,
     fbens  |-> {TRUE},
     acks   |-> BOOLEAN,
     maxpts |-> MaxPoints,
     maxstall |-> MaxStall,
     n_upsample |-> 1,
     maxins |-> 0,
     permits |-> {FALSE},
     top |-> FALSE]

FastEnv == [LiveEnv EXCEPT !.acks = {TRUE}, !.maxstall = 0]

LiveEnvs == {LiveEnv, FastEnv}

InitLive ==
    /\ RegsInit
    /\ env \in LiveEnvs
    /\ fb_enable = TRUE
    /\ mem = [a \in FbAddrs |-> ZeroWord]
    /\ enable \in env.ens
    /\ permit_bus_traffic \in env.permits
    /\ up = UpInit
    /\ PeriphIdle
    /\ npoints = 0
    /\ stall = 0
    /\ trace = <<>>

\* a tick outside LATCH0 that moves the FSM: out of OFF when enable is high,
\* through LATCH1 and the drain, out of READ and WRITE on an acknowledge
Advance == NextAccum /\ fsm # "LATCH0" /\ fsm' # fsm

\* the clock keeps running, and the memory does not withhold its acknowledge
\* for ever
SpecLive == InitLive /\ [][NextAccum]_vars /\ WF_vars(Advance)

-----------------------------------------------------------------------------
(* SynthPeripheral (top/polysyn/top.py): the matrix coefficient update     *)
(* logic.  One step is one clock tick; the rasterizer is left at rest.     *)

\* coefficients committed in one behaviour of SpecMatrix
MaxCoeffs == 2

\* what the SoC writes to the Matrix register
Coeffs ==
    {[o_x |-> 0, i_y |-> 1, v |-> -1],
     [o_x |-> 1, i_y |-> 0, v |-> 3],
     [o_x |-> 15, i_y |-> 15, v |-> -8388608]}

\* `self._matrix.element.w_stb & ~matrix_busy`
MatrixCommit == matrix_in.w_stb /\ ~matrix_busy

\* `matrix_busy & self.synth.diffuser.matrix.c.ready`
MatrixDone == matrix_busy /\ matrix_in.ready

\* the inputs of the next cycle; the SoC stops writing fresh coefficients
\* after MaxCoeffs of them
MatrixNextCycle ==
    matrix_in' \in
        {i \in [w_stb : BOOLEAN, w_data : Coeffs, ready : BOOLEAN] :
            (i.w_stb /\ ~matrix_busy') => Len(coeffs'.sent) < MaxCoeffs}

\* mutant: a write strobe commits whether or not a coefficient is waiting
TickMatrix_overwrite ==
    /\ matrix_busy' = (IF MatrixDone THEN FALSE
                       ELSE IF matrix_in.w_stb THEN TRUE ELSE matrix_busy)
    /\ c_valid' = (IF MatrixDone THEN FALSE
                   ELSE IF matrix_in.w_stb THEN TRUE ELSE c_valid)
    /\ c_payload' = (IF matrix_in.w_stb THEN matrix_in.w_data ELSE c_payload)
    /\ coeffs' = [sent |-> IF MatrixCommit
                           THEN Append(coeffs.sent, matrix_in.w_data)
                           ELSE coeffs.sent,
                  done |-> IF c_valid /\ matrix_in.ready
                           THEN Append(coeffs.done, c_payload)
                           ELSE coeffs.done]
    /\ MatrixNextCycle
    /\ UNCHANGED <<regs, fb_enable, enable, permit_bus_traffic, mem, env, up,
                   npoints, stall, trace, soc_midi_fifo, read_midi_fifo, midi_in,
                   midi_log>>

\* one tick of the matrix coefficient update logic; coeffs records the
\* coefficients committed and those the diffuser took (c.valid & c.ready)
TickMatrix ==
    /\ matrix_busy' = (IF MatrixDone THEN FALSE
                       ELSE IF MatrixCommit THEN TRUE ELSE matrix_busy)
    /\ c_valid' = (IF MatrixDone THEN FALSE
                   ELSE IF MatrixCommit THEN TRUE ELSE c_valid)
    /\ c_payload' = (IF MatrixCommit THEN matrix_in.w_data ELSE c_payload)
    /\ coeffs' = [sent |-> IF MatrixCommit
                           THEN Append(coeffs.sent, matrix_in.w_data)
                           ELSE coeffs.sent,
                  done |-> IF c_valid /\ matrix_in.ready
                           THEN Append(coeffs.done, c_payload)
                           ELSE coeffs.done]
    /\ MatrixNextCycle
    /\ UNCHANGED <<regs, fb_enable, enable, permit_bus_traffic, mem, env, up,
                   npoints, stall, trace, soc_midi_fifo, read_midi_fifo, midi_in,
                   midi_log>>

InitMatrix ==
    /\ RegsInit
    /\ env = StallEnv
    /\ fb_enable = FALSE
    /\ enable = FALSE
    /\ permit_bus_traffic = FALSE
    /\ mem = [a \in FbAddrs |-> ZeroWord]
    /\ up = UpInit
    /\ npoints = 0
    /\ stall = 0
    /\ trace = <<>>
    /\ matrix_busy = FALSE
    /\ c_valid = FALSE
    /\ c_payload = NoCoeff
    /\ matrix_in \in [w_stb : BOOLEAN, w_data : Coeffs, ready : BOOLEAN]
    /\ coeffs = [sent |-> <<>>, done |-> <<>>]
    /\ MidiIdle

NextMatrix == TickMatrix

SpecMatrix == InitMatrix /\ [][NextMatrix]_vars

-----------------------------------------------------------------------------
(* SynthPeripheral: MIDI injection, the arbiter between SoC MIDI and       *)
(* hardware MIDI, and the FIFO that records hardware MIDI for the SoC.     *)
(* A FIFO is the sequence of its entries; an entry written in one cycle    *)
(* can be read from the next.                                              *)

\* messages each source sends in one behaviour of SpecMidi
MaxMidi == 2

\* SyncFIFOBuffered(width=24, depth=8)
FifoDepth == 8
FifoWidth == 24

\* what the hardware source sends, and what the SoC writes to MidiWrite
\* (unsigned(32): the second value has a bit above the FIFO's 24)
HwMsgs == {1, 2}
SocMsgs == {7, 16777224}

\* soc_midi_fifo.r_stream.valid
soc_valid == Len(soc_midi_fifo) > 0

\* synth.i_midi.valid and payload: from i_midi, overridden by the SoC FIFO's
\* read stream while that is valid
synth_valid == IF soc_valid THEN TRUE ELSE midi_in.valid
synth_payload == IF soc_valid THEN Head(soc_midi_fifo) ELSE midi_in.payload
synth_source == IF soc_valid THEN "soc" ELSE "hw"

\* mutant: the hardware source is held off while the SoC FIFO drives the synth
i_midi_ready_arbitrated == midi_in.synth_ready /\ ~soc_valid

\* i_midi.ready: wiring.connect(m, wiring.flipped(self.i_midi),
\* self.synth.i_midi) drives it from the synth's ready, outside the m.If
i_midi_ready == midi_in.synth_ready

\* soc_midi_fifo.r_stream.ready: driven only under m.If(r_stream.valid)
r_stream_ready == soc_valid /\ midi_in.synth_ready

\* read_midi_fifo.w_en
read_w_en == midi_in.valid /\ i_midi_ready

\* a FIFO after one cycle: the oldest entry read if pop, then v written if
\* push and there is room
Fifo(q, pop, push, v) ==
    LET r == IF pop /\ Len(q) > 0 THEN Tail(q) ELSE q
    IN  IF push /\ Len(q) < FifoDepth THEN Append(r, v) ELSE r

\* the inputs of a cycle; a payload that is not valid and data that is not
\* strobed are read by nothing and are given one value
MidiInputs ==
    {i \in [valid : BOOLEAN, payload : HwMsgs \cup {0}, synth_ready : BOOLEAN,
            w_stb : BOOLEAN, w_data : SocMsgs \cup {0}, r_stb : BOOLEAN] :
        /\ i.valid <=> i.payload # 0
        /\ i.w_stb <=> i.w_data # 0}

\* the inputs of the next cycle: a source holds valid and its payload until
\* it has seen ready; each source stops after MaxMidi messages
MidiNextCycle ==
    midi_in' \in
        {i \in MidiInputs :
            /\ (midi_in.valid /\ ~i_midi_ready)
                  => (i.valid /\ i.payload = midi_in.payload)
            /\ i.valid => Len(midi_log'.hw) < MaxMidi
            /\ i.w_stb => Len(midi_log'.soc) < MaxMidi}

\* one tick of the MIDI logic
TickMidi ==
    /\ soc_midi_fifo' = Fifo(soc_midi_fifo, r_stream_ready, midi_in.w_stb,
                             Trunc(midi_in.w_data, FifoWidth))
    /\ read_midi_fifo' = Fifo(read_midi_fifo, midi_in.r_stb, read_w_en,
                              midi_in.payload)
    /\ midi_log' =
          [hw  |-> IF midi_in.valid /\ i_midi_ready
                   THEN Append(midi_log.hw, midi_in.payload) ELSE midi_log.hw,
           soc |-> IF midi_in.w_stb
                   THEN Append(midi_log.soc, Trunc(midi_in.w_data, FifoWidth))
                   ELSE midi_log.soc,
           got |-> IF synth_valid /\ midi_in.synth_ready
                   THEN Append(midi_log.got, <<synth_source, synth_payload>>)
                   ELSE midi_log.got,
           rec |-> IF read_w_en /\ Len(read_midi_fifo) < FifoDepth
                   THEN Append(midi_log.rec, midi_in.payload) ELSE midi_log.rec]
    /\ MidiNextCycle
    /\ UNCHANGED <<regs, fb_enable, enable, permit_bus_traffic, mem, env, up,
                   npoints, stall, trace, matrix_busy, c_valid, c_payload,
                   matrix_in, coeffs>>

InitMidi ==
    /\ RegsInit
    /\ env = StallEnv
    /\ fb_enable = FALSE
    /\ enable = FALSE
    /\ permit_bus_traffic = FALSE
    /\ mem = [a \in FbAddrs |-> ZeroWord]
    /\ up = UpInit
    /\ npoints = 0
    /\ stall = 0
    /\ trace = <<>>
    /\ matrix_busy = FALSE
    /\ c_valid = FALSE
    /\ c_payload = NoCoeff
    /\ matrix_in = [w_stb |-> FALSE, w_data |-> NoCoeff, ready |-> FALSE]
    /\ coeffs = [sent |-> <<>>, done |-> <<>>]
    /\ soc_midi_fifo = <<>>
    /\ read_midi_fifo = <<>>
    /\ midi_in \in MidiInputs
    /\ midi_log = [hw |-> <<>>, soc |-> <<>>, got |-> <<>>, rec |-> <<>>]

NextMidi == TickMidi

SpecMidi == InitMidi /\ [][NextMidi]_vars

TypeOK ==
    /\ fsm \in {"OFF", "LATCH0", "LATCH1", "READ", "WAIT", "WAIT2", "WAIT3", "WRITE"}
    /\ sample_x \in -32768 .. 32767
    /\ sample_y \in -32768 .. 32767
    /\ sample_intensity \in 0 .. 15
    /\ px_read \in [1 .. 4 -> 0 .. 255]
    /\ px_sum \in 0 .. 255
    /\ bus_sel \in {0, 15}
    /\ \A a \in DOMAIN mem : mem[a] \in [1 .. 4 -> 0 .. 255]

-----------------------------------------------------------------------------
(* Claims *)

\* points accepted and neither written, discarded nor aborted
InFlight == Count("accept") - Count("out") - Count("write")

\* C1: at most one draw transaction is in flight, and while one is in flight
\* and the framebuffer stays enabled the latched sample does not change and
\* no further point is accepted.
C1_OneTransactionStableSample ==
    /\ [](InFlight \in {0, 1} /\ (InFlight = 1 <=> fsm \in Busy))
    /\ [][(fsm \in Busy /\ fb_enable) =>
            /\ sample_x' = sample_x
            /\ sample_y' = sample_y
            /\ sample_c' = sample_c
            /\ sample_intensity' = sample_intensity
            /\ npoints' = npoints]_vars

\* the second point's write is strobed
C1_Witness == fsm = "WRITE" /\ npoints = 2 /\ InFlight = 1

\* C2: whenever the write strobe (stb & we) is asserted, the events since the
\* point was latched are: its bounds check, one acknowledged read of the
\* address now on the bus, whose data is the word held in px_read, and the
\* three ticks of the latency drain.
C2_ReadBeforeWrite ==
    (bus_stb /\ bus_we) =>
        LET n == Len(trace)
        IN  /\ n >= 6
            /\ Kind(n - 5) = "accept"
            /\ Kind(n - 4) = "in"
            /\ Kind(n - 3) = "read"
            /\ trace[n - 3][2] = bus_adr
            /\ trace[n - 3][3] = px_read
            /\ Kind(n - 2) = "wait"
            /\ Kind(n - 1) = "wait"
            /\ Kind(n) = "wait"

\* the write strobe of a second in-bounds point, on a word that is not blank
C2_Witness ==
    /\ bus_stb /\ bus_we
    /\ Count("read") = 2
    /\ px_read # ZeroWord

\* colour lane of the last completed draw
LastDrawnLane ==
    LET j == CHOOSE i \in 1 .. Len(trace) :
                 Kind(i) = "write" /\ \A k \in (i + 1) .. Len(trace) : Kind(k) # "write"
    IN  trace[j - 6][2]

\* C3: after N completed draws of one in-bounds point with intensity step s
\* onto a pixel whose intensity was 0, the pixel's intensity is min(15, N*s)
\* and, once drawn, its colour is the colour of the last draw.
C3_SaturatingAccumulation ==
    WithinFb(AccumX, AccumY, AccumRot) =>
        LET N == Count("write")
        IN  /\ PixelIntensity(AccumPixel) = Min(15, N * The(env.steps))
            /\ N > 0 => PixelColour(AccumPixel) =
                            ((LastDrawnLane \div 1024) + The(env.hues)) % 16

\* step 1: saturated by the 15th draw and still 15 after the 16th
C3_Witness ==
    /\ The(env.steps) = 1
    /\ Count("write") = 16
    /\ PixelIntensity(AccumPixel) = 15

\* acknowledged writes to adr among events i+1 .. j-1
WritesBetween(i, j, adr) ==
    {k \in (i + 1) .. (j - 1) : Kind(k) = "write" /\ trace[k][2] = adr}

\* C4: a read returns the word of the latest earlier write to its address;
\* of two successive writes to one word at different sub-fields the second
\* keeps the byte the first stored; and memory holds the word last written.
C4_NoLostUpdate ==
    \A i \in 1 .. Len(trace) : Kind(i) = "write" =>
        LET adr == trace[i][2]
            dat == trace[i][3]
            sub == trace[i][4] \div 8
        IN  /\ \A j \in (i + 1) .. Len(trace) :
                  (trace[j][1] \in {"read", "write"} /\ trace[j][2] = adr
                     /\ WritesBetween(i, j, adr) = {}) =>
                      /\ Kind(j) = "read" => trace[j][3] = dat
                      /\ (Kind(j) = "write" /\ trace[j][4] # trace[i][4]) =>
                             ByteOf(trace[j][3], sub) = ByteOf(dat, sub)
            /\ WritesBetween(i, Len(trace) + 1, adr) = {} => mem[adr] = dat

\* two points were written back-to-back into different sub-fields of one word
C4_Witness ==
    \E i \in 7 .. Len(trace) :
        /\ i + 7 = Len(trace)
        /\ Kind(i) = "write" /\ Kind(i + 7) = "write"
        /\ Kind(i - 5) = "in" /\ Kind(i + 2) = "in"
        /\ LET p1 == trace[i - 5]
               p2 == trace[i + 2]
               s1 == SubField(p1[2], p1[3], p1[4])
               s2 == SubField(p2[2], p2[3], p2[4])
           IN  /\ WordAddr(p1[2], p1[3], p1[4]) = WordAddr(p2[2], p2[3], p2[4])
               /\ s1 # s2
               /\ trace[i][4] = 8 * s1
               /\ trace[i + 7][4] = 8 * s2
               /\ ByteOf(trace[i][3], s1) # ByteOf(trace[i - 4][3], s1)
               /\ ByteOf(mem[trace[i][2]], s1) = ByteOf(trace[i][3], s1)
               /\ ByteOf(mem[trace[i][2]], s2) # ByteOf(trace[i + 3][3], s2)

\* C5: a bounds check of a point whose horizontal word index or vertical
\* index lies outside the framebuffer (below 0 included) discards it: the
\* engine is in LATCH0 on the next cycle, memory is unchanged by the step, and
\* the next event is the acceptance of another point (no read, no write).
C5_OutOfBoundsDiscard ==
    /\ [](\A i \in 1 .. Len(trace) :
            (Kind(i) \in {"in", "out"}
               /\ ~WithinFb(trace[i][2], trace[i][3], trace[i][4])) =>
                /\ Kind(i) = "out"
                /\ i < Len(trace) => Kind(i + 1) = "accept"
                /\ i = Len(trace) => (fsm = "LATCH0" /\ ~bus_stb /\ ~bus_we))
    /\ [][(fsm = "LATCH1" /\ fb_enable
             /\ ~WithinFb(trace'[Len(trace')][2], trace'[Len(trace')][3],
                          trace'[Len(trace')][4])) =>
            (fsm' = "LATCH0" /\ mem' = mem /\ bus_adr' = bus_adr)]_vars

\* a point left of the framebuffer (negative word index) has just been discarded
C5_Witness ==
    /\ Len(trace) > 0
    /\ Kind(Len(trace)) = "out"
    /\ HorizIndex(trace[Len(trace)][2], trace[Len(trace)][3], trace[Len(trace)][4]) < 0
    /\ fsm = "LATCH0"

\* the sub-fields in which two words differ
DiffBytes(v, w) == {k \in 0 .. 3 : ByteOf(v, k) # ByteOf(w, k)}

\* C6: in WRITE the payload differs from the word the transaction's read
\* returned in at most one byte, whatever hue and rotate_left are in that
\* cycle; and a step that changes memory changes one byte of one word, the
\* word at bus.adr, which is the address the read was acknowledged at.
C6_FrameCondition ==
    /\ [](fsm = "WRITE" =>
            \A hue \in env.hues, rot \in env.rots :
                Cardinality(DiffBytes(bus_dat_w(hue, rot), trace[Len(trace) - 3][3])) <= 1)
    /\ [][mem' # mem =>
            /\ bus_stb /\ bus_we
            /\ bus_adr = trace[Len(trace) - 3][2]
            /\ \A a \in DOMAIN mem : a # bus_adr => mem'[a] = mem[a]
            /\ Cardinality(DiffBytes(mem'[bus_adr], mem[bus_adr])) = 1]_vars

\* a write has just replaced one pixel of a word holding four different pixels
C6_Witness ==
    /\ fsm = "LATCH0"
    /\ Len(trace) >= 7
    /\ Kind(Len(trace)) = "write"
    /\ trace[Len(trace) - 4][3] = PatternWord
    /\ mem[trace[Len(trace)][2]] = trace[Len(trace)][3]
    /\ Cardinality(DiffBytes(trace[Len(trace)][3], PatternWord)) = 1

\* the engine is idle: in OFF, no bus request, not ready
Idle == fsm = "OFF" /\ ~bus_stb /\ ~bus_cyc /\ ~bus_we /\ ~ready

\* C7 as stated: in every cycle in which fb.enable is low the engine is idle.
C7_IdleWheneverDisabled == ~fb_enable => Idle

\* C7 as amended: in the cycle after every clock tick at which fb.enable was
\* low the engine is idle, whatever state it was in at that tick.
C7_IdleAfterDisabledTick == [][~fb_enable => Idle']_vars

\* the engine, restarted after it had accepted a point, is held in OFF
C7_Witness == ~fb_enable /\ Idle /\ npoints > 0 /\ trace = <<>>

\* index of the last event of kind k in trace, 0 when there is none
LastOf(k) ==
    IF Count(k) = 0 THEN 0
    ELSE CHOOSE i \in 1 .. Len(trace) :
             Kind(i) = k /\ \A j \in (i + 1) .. Len(trace) : Kind(j) # k

\* C8: a tick with fb.enable low leaves every sync register at its initial
\* value, from any state and without an acknowledge; and whenever a strobe is
\* asserted, the address on the bus and the latched sample are those of a
\* point accepted and bounds-checked since the last restart.
C8_CleanReset ==
    /\ [][~fb_enable => RegsInit']_vars
    /\ [](bus_stb =>
            /\ LastOf("in") > LastOf("accept")
            /\ LastOf("accept") > 0
            /\ LET e == trace[LastOf("in")]
               IN  /\ bus_adr = WordAddr(e[2], e[3], e[4])
                   /\ sample_x = e[2]
                   /\ sample_y = e[3]
                   /\ sample_c = trace[LastOf("accept")][2])

\* after a restart, the read of the first point accepted since is strobed
C8_Witness ==
    /\ fsm = "READ"
    /\ bus_stb
    /\ npoints = 2
    /\ Len(trace) = 2

One(b) == IF b THEN 1 ELSE 0

\* C9: ready is asserted exactly in LATCH0; a point is consumed only on a tick
\* with ready high, and that tick takes the engine to the bounds check; while
\* ready is low the latched sample is not overwritten; and every consumed
\* point has had exactly one bounds check, every point found in bounds exactly
\* one acknowledged read, then one acknowledged write, up to the step the
\* engine is at.
C9_BackpressureNoLoss ==
    /\ [](/\ ready <=> fsm \notin (Busy \cup {"OFF"})
          /\ Count("accept") = Count("in") + Count("out") + One(fsm = "LATCH1")
          /\ Count("in") = Count("read") + One(fsm = "READ")
          /\ Count("read") = Count("write") + One(fsm \in {"WAIT", "WAIT2", "WAIT3", "WRITE"}))
    /\ [][npoints' # npoints =>
            (ready /\ fb_enable /\ npoints' = npoints + 1 /\ fsm' = "LATCH1")]_vars
    /\ [][(~ready /\ fb_enable) =>
            <<sample_x, sample_y, sample_p, sample_c, sample_intensity>>' =
            <<sample_x, sample_y, sample_p, sample_c, sample_intensity>>]_vars

\* ready again after two consumed points, one discarded and one written
C9_Witness ==
    /\ ready
    /\ npoints = 2
    /\ Count("accept") = 2
    /\ Count("out") = 1
    /\ Count("write") = 1

IsTransfer(e) == e[1] \in {"read", "write"}
IsIn(e) == e[1] = "in"

\* the acknowledged bus transactions, and the points found in bounds, in order
Transfers == SelectSeq(trace, IsTransfer)
InPoints == SelectSeq(trace, IsIn)

\* C10: since the last restart the acknowledged transactions are
\* read(a1), write(a1), read(a2), write(a2), ... with a1, a2, ... the word
\* addresses of the points found in bounds, in the order they were accepted;
\* a point is accepted only when every earlier point's write is acknowledged.
C10_StrictSerialization ==
    /\ Len(Transfers) <= 2 * Len(InPoints)
    /\ Len(Transfers) >= 2 * (Len(InPoints) - 1)
    /\ \A k \in 1 .. Len(Transfers) :
          LET e == InPoints[(k + 1) \div 2]
          IN  /\ Transfers[k][1] = (IF k % 2 = 1 THEN "read" ELSE "write")
              /\ Transfers[k][2] = WordAddr(e[2], e[3], e[4])

\* two points drawn one after the other to different words
C10_Witness ==
    /\ Len(Transfers) = 4
    /\ Transfers[1][2] # Transfers[3][2]

\* C11: a tick in READ or WRITE that brings no acknowledge, the framebuffer
\* staying enabled, leaves the engine where it is: same state, same address
\* and byte select, same strobe and write enable, ready low, memory untouched
\* and no point consumed, however many such ticks came before; the engine
\* leaves READ or WRITE only by the acknowledge of the transaction at bus.adr;
\* and a stalled transaction is the one read resp. write of the last point
\* found in bounds, neither issued a second time nor skipped.
C11_NoRetryNoTimeout ==
    /\ [][(bus_stb /\ fb_enable /\ trace' = trace) =>
            /\ fsm' = fsm
            /\ bus_adr' = bus_adr /\ bus_sel' = bus_sel
            /\ bus_stb' /\ bus_cyc' /\ (bus_we' <=> bus_we)
            /\ ~ready'
            /\ mem' = mem
            /\ npoints' = npoints
            /\ stall' = Min(stall + 1, env.maxstall)]_vars
    /\ [][(bus_stb /\ fb_enable /\ fsm' # fsm) =>
            /\ Len(trace') = Len(trace) + 1
            /\ trace'[Len(trace')][1] = (IF bus_we THEN "write" ELSE "read")
            /\ trace'[Len(trace')][2] = bus_adr
            /\ fsm' = (IF bus_we THEN "LATCH0" ELSE "WAIT")]_vars
    /\ [](stall > 0 =>
            /\ bus_stb /\ bus_cyc /\ ~ready
            /\ Kind(Len(trace)) = (IF bus_we THEN "wait" ELSE "in")
            /\ bus_adr = WordAddr(trace[LastOf("in")][2], trace[LastOf("in")][3],
                                  trace[LastOf("in")][4])
            /\ Count("in") = Count("read") + One(~bus_we)
            /\ Count("read") = Count("write") + One(bus_we))

\* a write still strobed after MaxStall ticks without an acknowledge
C11_Witness == fsm = "WRITE" /\ fb_enable /\ stall = MaxStall /\ bus_stb /\ bus_we

\* C12: stb and cyc are equal in every cycle and asserted exactly in READ and
\* WRITE; we is asserted exactly in WRITE; whenever the strobe is asserted the
\* byte select register holds 0xF; and an acknowledged transfer is followed
\* by a cycle with the strobe low, so one handshake moves one word and no two
\* transfers are back to back.
C12_BusSignalling ==
    /\ [](/\ bus_stb <=> bus_cyc
          /\ bus_stb <=> fsm \in {"READ", "WRITE"}
          /\ bus_we <=> fsm = "WRITE"
          /\ bus_stb => bus_sel = 15)
    /\ [][(bus_stb /\ Len(trace') = Len(trace) + 1) =>
            /\ trace'[Len(trace')][1] = (IF bus_we THEN "write" ELSE "read")
            /\ ~bus_stb' /\ ~bus_cyc' /\ ~bus_we']_vars
    /\ [][mem' # mem =>
            Cardinality({a \in DOMAIN mem : mem'[a] # mem[a]}) = 1]_vars

\* the write of a point accepted after a restart is strobed with full select
C12_Witness ==
    /\ bus_stb /\ bus_cyc /\ bus_we
    /\ bus_sel = 15
    /\ npoints >= 2
    /\ Len(trace) = 6

\* the point the engine is drawing: the last one a bounds check let through
Drawn == trace[LastOf("in")]

\* C13: while a transaction is under way, the address register holds
\* fb_base + vertical * row_stride_words + horizontal for the latched (x, y)
\* and the rotate flag of the bounds check, where unrotated
\* horizontal = half_width + (x >> 2), vertical = y + active_height/2 and
\* rotated horizontal = half_width + ((-y) >> 2), vertical = x + active_height/2;
\* and the shift of the mapper is (x mod 4)*8 unrotated, ((-y) mod 4)*8 rotated.
C13_AddressMapping ==
    /\ fsm \in {"READ", "WAIT", "WAIT2", "WAIT3", "WRITE"} =>
          LET x     == Drawn[2]
              y     == Drawn[3]
              rot   == Drawn[4]
              horiz == (fb_hwords \div 2) + (IF rot THEN Asr(-y, 2) ELSE Asr(x, 2))
              vert  == (IF rot THEN x ELSE y) + (VActive \div 2)
          IN  /\ x = sample_x /\ y = sample_y
              /\ bus_adr = FbBase + vert * fb_hwords + horiz
              /\ (bus_adr - FbBase) % fb_hwords = horiz
              /\ (bus_adr - FbBase) \div fb_hwords = vert
    /\ subpix_shift(FALSE) = (sample_x % 4) * 8
    /\ subpix_shift(TRUE) = ((-sample_y) % 4) * 8

\* a rotated point is being read at an address that is not the one the
\* unrotated mapping gives it
C13_Witness ==
    /\ fsm = "READ"
    /\ env = GridEnv
    /\ Drawn[4]
    /\ WithinFb(sample_x, sample_y, FALSE)
    /\ bus_adr # WordAddr(sample_x, sample_y, FALSE)
    /\ subpix_shift(TRUE) # subpix_shift(FALSE)

\* the byte a write payload puts at the sub-field it updates
WrittenByte(hue, rot) == ByteOf(bus_dat_w(hue, rot), subpix_shift(rot) \div 8)

\* the byte the read of the transaction under way extracted from its word
ExtractedByte ==
    LET rd == trace[LastOf("read")]
    IN  ByteOf(rd[3], rd[4] \div 8)

\* colour and intensity of a write: ((lane >> 10) + hue) mod 16, and the
\* extracted intensity plus the step latched with the point, saturating at 15
WrittenColour(hue) == (Asr(trace[LastOf("accept")][2], 10) + hue) % 16
WrittenIntensity == Min(15, (ExtractedByte \div 16) + sample_intensity)

\* C14 as stated: the updated sub-field of every write payload is
\* {color[3:0], intensity[3:0]}, the colour in bits 7:4 and the intensity in
\* bits 3:0.
C14_ColourHighIntensityLow ==
    fsm = "WRITE" =>
        \A hue \in env.hues, rot \in env.rots :
            WrittenByte(hue, rot) = 16 * WrittenColour(hue) + WrittenIntensity

\* C14 as amended: the updated sub-field of every write payload holds the
\* new colour in bits 3:0 and the new intensity in bits 7:4, the nibble the
\* engine extracts the stored intensity from; the new colour is
\* ((colour lane >> 10) + hue) mod 16 and the new intensity is
\* min(15, extracted intensity + latched step).
C14_ColourLowIntensityHigh ==
    fsm = "WRITE" =>
        /\ px_sum = ExtractedByte
        /\ \A hue \in env.hues, rot \in env.rots :
              /\ WrittenByte(hue, rot) % 16 = WrittenColour(hue)
              /\ WrittenByte(hue, rot) \div 16 = WrittenIntensity

\* step 1, hue 5, colour lane 0 drawn on a blank word at sub-field 0: the
\* pixel in memory is 0x15, colour 5 in the low nibble, intensity 1 on top
C14_Witness ==
    /\ Len(trace) = 7
    /\ Kind(7) = "write"
    /\ trace[1][2] = 0 /\ trace[1][3] = 1
    /\ trace[3][3] = ZeroWord /\ trace[3][4] = 0
    /\ trace[7][3] = <<21, 0, 0, 0>>
    /\ mem[trace[7][2]] = <<21, 0, 0, 0>>
    /\ PixelColour(21) = 5 /\ PixelIntensity(21) = 1

\* C15 as stated: the write payload carries the hue and the intensity step
\* configured in the cycle of the write, whatever they were when the point
\* was latched.
C15_StepAndHueOfWriteCycle ==
    fsm = "WRITE" =>
        \A hue \in env.hues, intensity \in env.steps, rot \in env.rots :
            /\ WrittenByte(hue, rot) % 16 = (Asr(sample_c, 10) + hue) % 16
            /\ WrittenByte(hue, rot) \div 16 =
                   Min(15, (ExtractedByte \div 16) + intensity)

\* C15 as amended: the hue a write applies is the hue configured in the cycle
\* of the write; the intensity step it adds is the step configured in the
\* cycle the point was accepted, held in sample_intensity from then on.
C15_HueOfWriteStepOfAccept ==
    /\ fsm \in Busy => sample_intensity = trace[LastOf("accept")][3]
    /\ \A i \in 1 .. Len(trace) : Kind(i) = "write" =>
          LET acc    == trace[i - 6]
              rd     == trace[i - 4]
              stored == ByteOf(rd[3], rd[4] \div 8)
              b      == ByteOf(trace[i][3], trace[i][4] \div 8)
          IN  /\ Kind(i - 6) = "accept" /\ Kind(i - 4) = "read"
              /\ b % 16 = (Asr(acc[2], 10) + trace[i][5]) % 16
              /\ b \div 16 = Min(15, (stored \div 16) + acc[3])

\* a write being strobed: its payload follows the hue of the cycle, and adds
\* the step 1 latched with the point although the step register may hold 8
\* by now
C15_Witness ==
    /\ fsm = "WRITE"
    /\ fb_enable
    /\ trace[LastOf("accept")][3] = 1
    /\ 8 \in env.steps
    /\ ExtractedByte \div 16 = 0
    /\ \A rot \in env.rots :
          /\ WrittenByte(5, rot) # WrittenByte(10, rot)
          /\ WrittenByte(5, rot) \div 16 = 1

\* the accepted point a bounds check at event i decided on
AcceptOf(i) == trace[i - 1]

\* the values of a signed 16-bit register
Signed16 == -32768 .. 32767

\* C16 as stated: a point whose exact (raw >> scale) + offset resolves
\* outside the framebuffer is discarded, whatever the raw value, the scale and
\* the offset.
C16_ExactOutOfRangeDiscarded ==
    \A i \in 1 .. Len(trace) :
        (Kind(i) \in {"in", "out"}
           /\ ~WithinFb(AcceptOf(i)[4], AcceptOf(i)[5], trace[i][4])) =>
            Kind(i) = "out"

\* C16 as amended: the bounds check decides on (raw >> scale) + offset as
\* truncated to the signed 16-bit sample registers: a point is discarded
\* exactly when the truncated coordinates resolve outside the framebuffer; so
\* a point whose exact coordinates fit 16 bits and resolve outside is
\* discarded, and nothing is read or written for a discarded point.
C16_TruncatedOutOfRangeDiscarded ==
    \A i \in 1 .. Len(trace) : Kind(i) \in {"in", "out"} =>
        LET ex  == AcceptOf(i)[4]
            ey  == AcceptOf(i)[5]
            rot == trace[i][4]
        IN  /\ Kind(i - 1) = "accept"
            /\ trace[i][2] = ToSigned(ex, 16) /\ trace[i][3] = ToSigned(ey, 16)
            /\ Kind(i) = "out" <=> ~WithinFb(ToSigned(ex, 16), ToSigned(ey, 16), rot)
            /\ (ex \in Signed16 /\ ey \in Signed16 /\ ~WithinFb(ex, ey, rot)) =>
                   /\ Kind(i) = "out"
                   /\ i = Len(trace)
                   /\ fsm = "LATCH0"
                   /\ mem = [a \in FbAddrs |-> PatternWord]

\* a point at the end of the lane range, unscaled and without offset, has been
\* discarded; its vertical coordinate alone would have been drawn
C16_Witness ==
    /\ env = WrapEnv
    /\ Len(trace) = 2
    /\ Kind(2) = "out"
    /\ trace[1][4] = 32767
    /\ trace[1][5] = 0
    /\ ~trace[2][4]
    /\ fsm = "LATCH0"

Drain == {"WAIT", "WAIT2", "WAIT3"}

\* events logged since the last acknowledged read
SinceRead == Len(trace) - LastOf("read")

\* C18: an acknowledged read, however many ticks it took to be acknowledged,
\* is followed by exactly three drain ticks, in WAIT, WAIT2 and WAIT3, with
\* stb, cyc, we and ready low, and only then by the first cycle of WRITE; while
\* the framebuffer is enabled no drain tick is skipped or repeated.
C18_FixedLatencyDrain ==
    /\ [](fsm \in Drain => (~bus_stb /\ ~bus_cyc /\ ~bus_we /\ ~ready))
    /\ [](LastOf("read") > LastOf("write") =>
            fsm = (CASE SinceRead = 0 -> "WAIT"
                     [] SinceRead = 1 -> "WAIT2"
                     [] SinceRead = 2 -> "WAIT3"
                     [] OTHER         -> "WRITE"))
    /\ [](\A i \in 1 .. Len(trace) : Kind(i) = "read" =>
            /\ \A j \in (i + 1) .. Min(i + 3, Len(trace)) : Kind(j) = "wait"
            /\ i + 4 <= Len(trace) => Kind(i + 4) = "write")
    /\ [][(fsm \in Drain /\ fb_enable) =>
            /\ fsm' = (CASE fsm = "WAIT"  -> "WAIT2"
                         [] fsm = "WAIT2" -> "WAIT3"
                         [] OTHER         -> "WRITE")
            /\ trace' = Append(trace, <<"wait">>)]_vars
    /\ [][(fsm' = "WRITE" /\ fsm # "WRITE") => fsm = "WAIT3"]_vars
    /\ [][(fsm' = "WAIT" /\ fsm # "WAIT") => (fsm = "READ" /\ bus_stb)]_vars

\* the first cycle of a write whose read was acknowledged late: three drain
\* ticks lie between them
C18_Witness ==
    /\ fsm = "WRITE"
    /\ stall = 0
    /\ SinceRead = 3
    /\ trace[LastOf("read")][5] = MaxStall

\* the first cycle of a write whose read was acknowledged at once
C18_WitnessFast ==
    /\ fsm = "WRITE"
    /\ stall = 0
    /\ SinceRead = 3
    /\ env = ConfigEnv
    /\ trace[LastOf("read")][5] = 0

\* sub-field shift of the point a bounds check let through at event i
ShiftOfPoint(i) == 8 * SubField(trace[i][2], trace[i][3], trace[i][4])

\* C19: in every transaction the shift the read extracts the stored byte at,
\* the shift the write payload masks and inserts the new byte at, and the
\* word address belong to one pixel, the one the bounds check let through,
\* whatever rotate_left does between the acceptance and the write acknowledge.
C19_OnePixelPerTransaction ==
    /\ \A i \in 1 .. Len(trace) : Kind(i) = "read" =>
          /\ Kind(i - 1) = "in"
          /\ trace[i][2] = WordAddr(trace[i - 1][2], trace[i - 1][3], trace[i - 1][4])
          /\ trace[i][4] = ShiftOfPoint(i - 1)
    /\ \A i \in 1 .. Len(trace) : Kind(i) = "write" =>
          /\ Kind(i - 5) = "in"
          /\ trace[i][2] = WordAddr(trace[i - 5][2], trace[i - 5][3], trace[i - 5][4])
          /\ trace[i][4] = ShiftOfPoint(i - 5)
          /\ trace[i][4] = trace[i - 4][4]
    /\ fsm = "WRITE" =>
          \A rot \in env.rots : subpix_shift(rot) = ShiftOfPoint(LastOf("in"))

\* C20: in every cycle with the strobe asserted, for a read or a write,
\* fb_base <= bus.adr < fb_base + row_stride_words * active_height; and every
\* acknowledged transfer was at such an address.
C20_AddressSafety ==
    /\ bus_stb =>
          (bus_adr >= FbBase /\ bus_adr < FbBase + fb_hwords * VActive)
    /\ \A i \in 1 .. Len(trace) : Kind(i) \in {"read", "write"} =>
          (trace[i][2] >= FbBase /\ trace[i][2] < FbBase + fb_hwords * VActive)

\* the write of a point with negative coordinates is strobed at the first
\* word of the framebuffer
C20_WitnessFirst ==
    /\ bus_stb /\ bus_we
    /\ env \in MapEnvs
    /\ sample_x < 0 /\ sample_y < 0
    /\ bus_adr = FbBase

\* a read is strobed at the last word of the framebuffer
C20_Witness ==
    /\ bus_stb /\ ~bus_we
    /\ env \in MapEnvs
    /\ bus_adr = FbBase + fb_hwords * VActive - 1

IsAccept(e) == e[1] = "accept"

\* the points the engine has latched, in order, as <<x, y, p, c>>
Latched ==
    LET acc == SelectSeq(trace, IsAccept)
    IN  [m \in 1 .. Len(acc) |-> <<acc[m][4], acc[m][5], acc[m][6], acc[m][2]>>]

Between(v, a, b) == (a <= v /\ v <= b) \/ (b <= v /\ v <= a)

C17_WitnessDirect ==
    /\ env.n_upsample = 1
    /\ env.maxins = MaxUpIns
    /\ Len(Latched) = 1
    /\ Latched[1] \in InputPoints
    /\ up = UpInit

\* C21: the engine leaves OFF only on a tick where enable is high and the
\* framebuffer is enabled; in OFF it strobes nothing and is not ready; once it
\* has left OFF it goes back only when the framebuffer is disabled, and with
\* the framebuffer enabled it advances through LATCH1 and the drain whatever
\* enable is; in the polysyn top level the start signal rises only in a cycle
\* where permit_bus_traffic is high and never falls.
C21_EnableOneShot ==
    /\ [][(fsm = "OFF" /\ fsm' # "OFF") => (enable /\ fb_enable)]_vars
    /\ [](fsm = "OFF" => (~bus_stb /\ ~bus_cyc /\ ~ready))
    /\ [][(fsm # "OFF" /\ fsm' = "OFF") => ~fb_enable]_vars
    /\ [][(fb_enable /\ ~enable) =>
            /\ fsm = "LATCH1" => fsm' \in {"READ", "LATCH0"}
            /\ fsm = "WAIT" => fsm' = "WAIT2"
            /\ fsm = "WAIT2" => fsm' = "WAIT3"
            /\ fsm = "WAIT3" => fsm' = "WRITE"
            /\ (fsm = "WRITE" /\ mem' # mem) => fsm' = "LATCH0"]_vars
    /\ [][env.top => /\ (~enable /\ enable') => permit_bus_traffic
                     /\ enable => enable']_vars

\* enable is free and low while the write of the second point is strobed
C21_Witness ==
    /\ ~env.top
    /\ BOOLEAN \subseteq env.ens
    /\ ~enable
    /\ fb_enable
    /\ fsm = "WRITE"
    /\ npoints = 2

\* top level: the engine draws, started by vector_periph.en, while
\* permit_bus_traffic is low again
C21_WitnessTop ==
    /\ env.top
    /\ enable
    /\ ~permit_bus_traffic
    /\ fsm = "WRITE"

\* C22: with the framebuffer enabled throughout and a memory that
\* acknowledges every strobe in the end, a point in flight is in the end
\* written or discarded with the engine ready again; if enable is ever high
\* the engine is ready (in LATCH0) infinitely often; and when every strobe is
\* acknowledged in its first cycle each tick of a point in flight is one
\* event, an in-bounds point being ready again after exactly the seven ticks
\* accept, bounds check, read, three drain ticks and write.
C22_Progress ==
    /\ (InFlight = 1) ~> (InFlight = 0 /\ ready)
    /\ (<>enable) => []<>ready
    /\ [][(env.acks = {TRUE} /\ fsm \in Busy) => Len(trace') = Len(trace) + 1]_vars
    /\ [](  (env.acks = {TRUE} /\ ready /\ Len(trace) > 0 /\ Kind(Len(trace)) = "write")
          => LET n == Len(trace)
             IN  /\ n >= 7
                 /\ <<Kind(n - 6), Kind(n - 5), Kind(n - 4), Kind(n - 3), Kind(n - 2), Kind(n - 1)>>
                      = <<"accept", "in", "read", "wait", "wait", "wait">>)

\* ready again after a point was discarded and a point was written whose read
\* had gone unacknowledged for MaxStall ticks
C22_Witness ==
    /\ ready
    /\ Count("out") = 1
    /\ Count("write") = 1
    /\ \E i \in 1 .. Len(trace) : Kind(i) = "read" /\ trace[i][5] = MaxStall

\* every strobe acknowledged at once: ready again seven ticks after the accept
C22_WitnessFast ==
    /\ env.acks = {TRUE}
    /\ ready
    /\ Len(trace) = 7
    /\ Kind(1) = "accept"
    /\ Kind(7) = "write"

\* C23: c.valid equals matrix_busy in every state; a Matrix write strobe
\* while not busy commits its coefficient and sets busy from the next cycle;
\* busy stays set, the payload unchanged, until a cycle with c.ready; a
\* write strobe while busy commits nothing; and the coefficients the diffuser
\* took are the coefficients committed, in order, each once, with the one
\* still waiting when busy.
C23_MatrixHandshake ==
    /\ [](c_valid = matrix_busy)
    /\ [][MatrixCommit => (matrix_busy' /\ c_payload' = matrix_in.w_data)]_vars
    /\ [][matrix_busy => /\ c_payload' = c_payload
                         /\ coeffs'.sent = coeffs.sent
                         /\ matrix_busy' = ~matrix_in.ready]_vars
    /\ [][(~matrix_busy /\ ~matrix_in.w_stb) => ~matrix_busy']_vars
    /\ [](coeffs.sent = IF matrix_busy
                           THEN Append(coeffs.done, c_payload)
                           ELSE coeffs.done)

\* the second coefficient waits for the diffuser while the SoC strobes a
\* write of a different one
C23_Witness ==
    /\ matrix_busy
    /\ Len(coeffs.done) = 1
    /\ matrix_in.w_stb
    /\ matrix_in.w_data # c_payload
    /\ c_payload # coeffs.done[1]

\* both coefficients committed and taken
C23_WitnessDone ==
    /\ ~matrix_busy
    /\ Len(coeffs.done) = MaxCoeffs
    /\ coeffs.done[1] # coeffs.done[2]

\* the messages of one source among those the synth received, in order
GotFrom(src) ==
    LET F[i \in 0 .. Len(midi_log.got)] ==
            IF i = 0 THEN <<>>
            ELSE IF midi_log.got[i][1] = src
                 THEN Append(F[i - 1], midi_log.got[i][2])
                 ELSE F[i - 1]
    IN  F[Len(midi_log.got)]

\* C24: while the SoC FIFO holds a message the synth's MIDI input carries
\* that message; i_midi.ready is low in such a cycle; the synth received,
\* in order, every message whose handshake on i_midi completed; and
\* read_midi_fifo was given only messages the synth received.
C24_NoMidiMessageLost ==
    /\ soc_valid => (synth_valid /\ synth_payload = Head(soc_midi_fifo))
    /\ soc_valid => ~i_midi_ready
    /\ GotFrom("hw") = midi_log.hw
    /\ midi_log.rec = GotFrom("hw")

\* what does hold: SoC messages have priority and reach the synth in the
\* order written, none lost; the FIFO records every message handed over on
\* i_midi, received by the synth or not
C24_SocPriorityHwRecorded ==
    /\ soc_valid => (synth_valid /\ synth_payload = Head(soc_midi_fifo))
    /\ midi_log.soc = GotFrom("soc") \o soc_midi_fifo
    /\ midi_log.rec = midi_log.hw

\* a hardware message was handed over in a cycle in which the synth took a
\* message of the SoC: it is recorded, the synth never received it
C24_Lost ==
    /\ Len(midi_log.hw) = 1
    /\ midi_log.rec = midi_log.hw
    /\ GotFrom("hw") = <<>>
    /\ GotFrom("soc") # <<>>
    /\ ~midi_in.valid

====
